---- MODULE Spec2Model ----
(***************************************************************************)
(* A model of scipy/_build_utils/_generate_blas_wrapper.py: the generator  *)
(* of one C wrapper file per BLAS/LAPACK routine.                          *)
(*                                                                         *)
(* Text is modelled structurally.  A generated wrapper body is a sequence  *)
(* of lines, the empty string being the empty sequence <<>>; a line is a   *)
(* record of the tokens the f-string template interpolates.  A decorated   *)
(* symbol such as  name + '_'  is the pair <<name, "_">>.                  *)
(*                                                                         *)
(* Two specifications are given.  SpecDecl applies the pure function       *)
(* generate_decl_wrapper to arguments drawn from bounded sets.  Spec is    *)
(* the file system together with runs of make_all.                         *)
(***************************************************************************)
EXTENDS Integers, Sequences, FiniteSets, TLC

VARIABLES
    WRAPPED_FUNCS,       \* imported set: routines with hard-coded wrappers
    USE_OLD_ACCELERATE,  \* imported set: routines served by old Accelerate symbols
    call,                \* SpecDecl: the arguments of one generate_decl_wrapper call
    ret,                 \* SpecDecl: what that call returned or raised
    blas_signature_file, \* Spec: lines of the BLAS signature file
    lapack_signature_file, \* Spec: lines of the LAPACK signature file
    src_exists,          \* Spec: which input files exist
    src_mtime,           \* Spec: modification time of each input file
    outdir,              \* Spec: output directory, path -> absent or a file
    clock,               \* Spec: the current time in whole seconds
    pc,                  \* Spec: position of the make_all run
    accelerate,          \* Spec: the run's platform-mode flag
    dst_files,           \* Spec: the run's list of paths tested for staleness
    to_write,            \* Spec: the run's dict of path -> text (insertion order)
    nwritten,            \* Spec: how many entries of to_write write_files has written
    outdir0,             \* Spec: the output directory as it was when the run began
    error                \* Spec: the exception that ended the run, "" if none

vars == <<WRAPPED_FUNCS, USE_OLD_ACCELERATE, call, ret, blas_signature_file,
          lapack_signature_file, src_exists, src_mtime, outdir, clock, pc,
          accelerate, dst_files, to_write, nwritten, outdir0, error>>

cfgVars  == <<WRAPPED_FUNCS, USE_OLD_ACCELERATE>>
declVars == <<call, ret>>
fsVars   == <<blas_signature_file, lapack_signature_file, src_exists, src_mtime,
              outdir, clock, pc, accelerate, dst_files, to_write, nwritten,
              outdir0, error>>

----------------------------------------------------------------------------
(* Bounds *)

MaxArgs == 2
MaxTime == 2

----------------------------------------------------------------------------
(* Imported configuration (module _wrappers_common) *)

\* The routine names that occur in the modelled signature catalogs.
RoutineNames == {"dgemm", "cdotc", "lsame", "xerbla_array"}

\* str.upper() on the routine names of the model.
Upper(name) ==
    CASE name = "dgemm" -> "DGEMM"
      [] name = "cdotc" -> "CDOTC"
      [] name = "lsame" -> "LSAME"
      [] name = "xerbla_array" -> "XERBLA_ARRAY"
      [] OTHER -> name

\* The two exception sets are fixed data of the imported module.  The model
\* lets them be any of these choices: the disjoint ones have the shape of
\* the shipped data, the overlapping ones exercise the order of the tests.
WrappedChoices == {{"cdotc"}, {"cdotc", "lsame"}}
OldAccelerateChoices == {{"lsame"}, {"lsame", "cdotc"}}

\* Abbreviated type -> C type.
C_TYPES ==
    ("int" :> "int") @@ ("c" :> "npy_complex64") @@ ("d" :> "double") @@
    ("s" :> "float") @@ ("z" :> "npy_complex128") @@ ("char" :> "char") @@
    ("bint" :> "int") @@ ("void" :> "void") @@
    ("cselect1" :> "_cselect1") @@ ("cselect2" :> "_cselect2") @@
    ("dselect2" :> "_dselect2") @@ ("dselect3" :> "_dselect3") @@
    ("sselect2" :> "_sselect2") @@ ("sselect3" :> "_sselect3") @@
    ("zselect1" :> "_zselect1") @@ ("zselect2" :> "_zselect2")

\* The macro and the symbol of the wrapped library function.
get_blas_macro_and_name(name, accel) ==
    IF accel /\ name \in USE_OLD_ACCELERATE
    THEN [macro |-> "", sym |-> <<name, "_">>]
    ELSE IF accel /\ name = "xerbla_array"
    THEN [macro |-> "", sym |-> <<name, "__">>]
    ELSE IF name \in WRAPPED_FUNCS
    THEN [macro |-> "F_FUNC", sym |-> <<name, "wrp">>]
    ELSE [macro |-> "BLAS_FUNC", sym |-> <<name, "">>]

----------------------------------------------------------------------------
(* generate_decl_wrapper *)

Min(a, b) == IF a < b THEN a ELSE b

\* Mutant of Zip: the last pair is lost.
Zip_dropsLast(xs, ys) ==
    [i \in 1..(Min(Len(xs), Len(ys)) - 1) |-> <<xs[i], ys[i]>>]

\* zip(xs, ys): pairs up to the shorter of the two.
Zip(xs, ys) == [i \in 1..Min(Len(xs), Len(ys)) |-> <<xs[i], ys[i]>>]

\* One line of generated text.  kind is "decl" (the external declaration),
\* "defn" (the header of the forwarding definition) or "return" (its body).
Line(kind, rtype, head, params, args) ==
    [kind |-> kind, rtype |-> rtype, head |-> head, params |-> params,
     args |-> args]

Returned(text) == [raised |-> "", text |-> text]
Raised(exc) == [raised |-> exc, text |-> <<>>]

\* Mutant of Template: a void routine calls without `return`, and the call
\* passes the arguments in reverse.
Template_voidAware(c_return_type, blas, name, param_list, argnames) ==
    << Line("decl", c_return_type, <<blas.macro, blas.sym>>, param_list, <<>>),
       Line("defn", c_return_type, <<"F_FUNC", <<name, Upper(name)>>>>,
            param_list, <<>>),
       Line(IF c_return_type = "void" THEN "call" ELSE "return", "",
            <<blas.macro, blas.sym>>, <<>>,
            [i \in 1..Len(argnames) |-> argnames[Len(argnames) + 1 - i]]) >>

\* The f-string template of lines 62-67.
Template(c_return_type, blas, name, param_list, argnames) ==
    << Line("decl", c_return_type, <<blas.macro, blas.sym>>, param_list, <<>>),
       Line("defn", c_return_type, <<"F_FUNC", <<name, Upper(name)>>>>,
            param_list, <<>>),
       Line("return", "", <<blas.macro, blas.sym>>, <<>>, argnames) >>

\* Lines 57-67: the C types are looked up, then the template is rendered.
RenderWrapper(name, return_type, argnames, argtypes, accel) ==
    IF return_type \notin DOMAIN C_TYPES THEN Raised("KeyError")
    ELSE IF \E i \in 1..Len(argtypes) : argtypes[i] \notin DOMAIN C_TYPES
    THEN Raised("KeyError")
    ELSE LET c_return_type == C_TYPES[return_type]
             c_argtypes == [i \in 1..Len(argtypes) |-> C_TYPES[argtypes[i]]]
             param_list == Zip(c_argtypes, argnames)
         IN  Returned(Template(c_return_type,
                               get_blas_macro_and_name(name, accel),
                               name, param_list, argnames))

\* Mutant of generate_decl_wrapper: the WRAPPED_FUNCS test is missing.
generate_decl_wrapper_noWrappedTest(name, return_type, argnames, argtypes, accel) ==
    IF accel /\ name \in USE_OLD_ACCELERATE THEN Returned(<<>>)
    ELSE RenderWrapper(name, return_type, argnames, argtypes, accel)

\* Mutant of generate_decl_wrapper: the legacy set is honoured in both modes.
generate_decl_wrapper_anyMode(name, return_type, argnames, argtypes, accel) ==
    IF name \in WRAPPED_FUNCS THEN Returned(<<>>)
    ELSE IF name \in USE_OLD_ACCELERATE THEN Returned(<<>>)
    ELSE RenderWrapper(name, return_type, argnames, argtypes, accel)

generate_decl_wrapper(name, return_type, argnames, argtypes, accel) ==
    IF name \in WRAPPED_FUNCS THEN Returned(<<>>)
    ELSE IF accel /\ name \in USE_OLD_ACCELERATE THEN Returned(<<>>)
    ELSE RenderWrapper(name, return_type, argnames, argtypes, accel)

----------------------------------------------------------------------------
(* SpecDecl: generate_decl_wrapper on bounded arguments *)

ArgNames == {"a", "b"}
TypeNames == {"d", "int", "q"}      \* "q" has no C type
ReturnTypes == {"void", "d", "q"}

SeqsUpTo(S, n) == UNION {[1..k -> S] : k \in 0..n}

Calls ==
    [name : RoutineNames, return_type : ReturnTypes,
     argnames : SeqsUpTo(ArgNames, MaxArgs),
     argtypes : SeqsUpTo(TypeNames, MaxArgs), accelerate : BOOLEAN]

Pending == Raised("pending")

FsIdle ==
    /\ blas_signature_file = <<>>
    /\ lapack_signature_file = <<>>
    /\ src_exists = {}
    /\ src_mtime = <<>>
    /\ outdir = <<>>
    /\ clock = 0
    /\ pc = "off"
    /\ accelerate = FALSE
    /\ dst_files = <<>>
    /\ to_write = <<>>
    /\ nwritten = 0
    /\ outdir0 = <<>>
    /\ error = ""

InitDecl ==
    /\ WRAPPED_FUNCS \in WrappedChoices
    /\ USE_OLD_ACCELERATE \in OldAccelerateChoices
    /\ call \in Calls
    /\ ret = Pending
    /\ FsIdle

CallGenerateDeclWrapper ==
    /\ ret = Pending
    /\ ret' = generate_decl_wrapper(call.name, call.return_type, call.argnames,
                                    call.argtypes, call.accelerate)
    /\ UNCHANGED <<cfgVars, call, fsVars>>

NextDecl == CallGenerateDeclWrapper

SpecDecl == InitDecl /\ [][NextDecl]_vars

----------------------------------------------------------------------------
(* The signature files and read_signatures (module _wrappers_common) *)

\* One line of a signature file, "ret name(arg, arg, ...)".  args holds,
\* for each piece of the argument text between ', ', the pieces that
\* split(' *') cuts it into: <<type, name>> for a well-formed argument.
SigLine(return_type, name, args) ==
    [kind |-> "sig", return_type |-> return_type, name |-> name, args |-> args]
CommentLine == [kind |-> "comment", return_type |-> "", name |-> "", args |-> <<>>]
BlankLine == [kind |-> "blank", return_type |-> "", name |-> "", args |-> <<>>]

S_dgemm == SigLine("void", "dgemm", << <<"char", "transa">>, <<"d", "a">> >>)
S_dgemm_d == SigLine("d", "dgemm", << <<"d", "d">> >>)
S_cdotc == SigLine("c", "cdotc", << <<"int", "n">>, <<"c", "cx">> >>)
S_lsame == SigLine("bint", "lsame", << <<"char", "ca">>, <<"char", "cb">> >>)
S_malformed == SigLine("d", "dgemm", << <<"int n">> >>)
S_unmapped == SigLine("void", "dgemm", << <<"q", "a">> >>)

BlasFiles ==
    { <<CommentLine, S_cdotc>>,
      <<S_dgemm, S_dgemm_d>>,
      <<S_malformed>>,
      <<S_dgemm, S_unmapped>> }

LapackFiles ==
    { <<S_lsame>>,
      <<BlankLine, S_dgemm>> }

Signature(name, return_type, argnames, argtypes) ==
    [name |-> name, return_type |-> return_type, argnames |-> argnames,
     argtypes |-> argtypes]

\* zip(*pieces) gives as many tuples as the shortest argument has pieces;
\* unpacking it into (argtypes, argnames) needs exactly two.
Unpackable(args) ==
    /\ Len(args) > 0
    /\ \A i \in 1..Len(args) : Len(args[i]) >= 2
    /\ \E i \in 1..Len(args) : Len(args[i]) = 2

\* An argument named like the return type, 'lambda' or 'in' gets a
\* trailing underscore.
Underscored(n) ==
    CASE n = "d" -> "d_"
      [] n = "lambda" -> "lambda_"
      [] n = "in" -> "in_"
      [] OTHER -> n

RenameArg(n, return_type) ==
    IF n = return_type \/ n \in {"lambda", "in"} THEN Underscored(n) ELSE n

ParseLine(line) ==
    Signature(line.name, line.return_type,
              [i \in 1..Len(line.args) |->
                   RenameArg(line.args[i][2], line.return_type)],
              [i \in 1..Len(line.args) |-> line.args[i][1]])

IsSigLine(line) == line.kind = "sig"

read_signatures(lines) ==
    LET sigLines == SelectSeq(lines, IsSigLine)
    IN  IF \E i \in 1..Len(sigLines) : ~Unpackable(sigLines[i].args)
        THEN [raised |-> "ValueError", sigs |-> <<>>]
        ELSE [raised |-> "",
              sigs |-> [i \in 1..Len(sigLines) |-> ParseLine(sigLines[i])]]

----------------------------------------------------------------------------
(* The file system *)

Inputs == {"__file__", "blas_signature_file", "lapack_signature_file"}

\* os.path.join(outdir, name + '.c')
Path(name) == <<name, ".c">>
Paths == {Path(n) : n \in RoutineNames}

Absent == [exists |-> FALSE, mtime |-> 0, text |-> <<>>]
File(mtime, text) == [exists |-> TRUE, mtime |-> mtime, text |-> text]

\* all(os.path.exists(dst) and newer(dst, src) ...): newer compares the
\* whole-second modification times strictly.
all_newer(dsts, srcs) ==
    \A i \in 1..Len(dsts) : \A s \in srcs :
        /\ outdir[dsts[i]].exists
        /\ outdir[dsts[i]].mtime > src_mtime[s]

----------------------------------------------------------------------------
(* generate_file_wrapper and the dicts of make_all *)

\* A dict is the sequence of its <<key, value>> items in insertion order.
Keys(d) == {d[i][1] : i \in 1..Len(d)}
HasKey(d, k) == \E i \in 1..Len(d) : d[i][1] = k

\* Mutant of DictSet: the item is appended even when the key is present.
DictSet_append(d, k, v) == Append(d, <<k, v>>)

\* d[k] = v: a present key keeps its position and takes the new value.
DictSet(d, k, v) ==
    IF HasKey(d, k)
    THEN [i \in 1..Len(d) |-> IF d[i][1] = k THEN <<k, v>> ELSE d[i]]
    ELSE Append(d, <<k, v>>)

Preamble(lib_name) ==
    IF lib_name = "BLAS"
    THEN <<"C_COMMENT", "C_PREAMBLE", "CPP_GUARD_BEGIN">>
    ELSE <<"C_COMMENT", "C_PREAMBLE", "LAPACK_DECLS", "CPP_GUARD_BEGIN">>

\* ''.join(preamble + [body, CPP_GUARD_END])
FileText(lib_name, body) ==
    [preamble |-> Preamble(lib_name), body |-> body, guard |-> "CPP_GUARD_END"]

DeclOf(sig, accel) ==
    generate_decl_wrapper(sig.name, sig.return_type, sig.argnames,
                          sig.argtypes, accel)

\* Mutant of the loop: a routine with an empty body gets no entry.
RECURSIVE WrappersUpTo_omitEmpty(_, _, _, _)
WrappersUpTo_omitEmpty(sigs, lib_name, accel, n) ==
    IF n = 0 THEN <<>>
    ELSE LET rest == WrappersUpTo_omitEmpty(sigs, lib_name, accel, n - 1)
             body == DeclOf(sigs[n], accel).text
         IN  IF body = <<>> THEN rest
             ELSE DictSet(rest, Path(sigs[n].name), FileText(lib_name, body))

\* The loop of lines 82-86 over sigs[1..n].
RECURSIVE WrappersUpTo(_, _, _, _)
WrappersUpTo(sigs, lib_name, accel, n) ==
    IF n = 0 THEN <<>>
    ELSE DictSet(WrappersUpTo(sigs, lib_name, accel, n - 1),
                 Path(sigs[n].name),
                 FileText(lib_name, DeclOf(sigs[n], accel).text))

generate_file_wrapper(sigs, lib_name, accel) ==
    IF \E i \in 1..Len(sigs) : DeclOf(sigs[i], accel).raised # ""
    THEN [raised |-> "KeyError", wrappers |-> <<>>]
    ELSE [raised |-> "", wrappers |-> WrappersUpTo(sigs, lib_name, accel, Len(sigs))]

\* Mutant of MergeDicts: the LAPACK wrappers are left out.
MergeDicts_dropsLapack(a, b) == [raised |-> "", dict |-> a]

\* dict(**a, **b): a keyword given twice is a TypeError.
MergeDicts(a, b) ==
    IF Keys(a) \cap Keys(b) # {}
    THEN [raised |-> "TypeError", dict |-> <<>>]
    ELSE [raised |-> "", dict |-> a \o b]

----------------------------------------------------------------------------
(* make_all *)

\* Lines 103-105.
SrcFiles == Inputs

\* Lines 106-107.
DstFiles(blas_sigs, lapack_sigs) ==
    LET sigs == blas_sigs \o lapack_sigs
    IN  [i \in 1..Len(sigs) |-> Path(sigs[i].name)]

Failed(exc, dsts) ==
    [pc |-> "failed", error |-> exc, dst_files |-> dsts, to_write |-> <<>>]

\* Lines 111-115: both dicts are generated and merged; nothing is written yet.
Regenerate(blas_sigs, lapack_sigs, accel, dsts) ==
    LET bw == generate_file_wrapper(blas_sigs, "BLAS", accel)
        lw == generate_file_wrapper(lapack_sigs, "LAPACK", accel)
        tw == MergeDicts(bw.wrappers, lw.wrappers)
    IN  IF bw.raised # "" THEN Failed(bw.raised, dsts)
        ELSE IF lw.raised # "" THEN Failed(lw.raised, dsts)
        ELSE IF tw.raised # "" THEN Failed(tw.raised, dsts)
        ELSE [pc |-> "writing", error |-> "", dst_files |-> dsts,
              to_write |-> tw.dict]

\* Mutant of Decide: the `return` of the skip path is missing.
Decide_noReturn(blas_sigs, lapack_sigs, accel, dsts) ==
    Regenerate(blas_sigs, lapack_sigs, accel, dsts)

\* Mutant of Decide: staleness is tested only for the routines that get a
\* wrapper body in the run's mode.
Decide_modeAware(blas_sigs, lapack_sigs, accel, dsts) ==
    LET HasBody(path) == ~(accel /\ path[1] \in USE_OLD_ACCELERATE)
    IN  IF all_newer(SelectSeq(dsts, HasBody), SrcFiles)
        THEN [pc |-> "skipped", error |-> "", dst_files |-> dsts,
              to_write |-> <<>>]
        ELSE Regenerate(blas_sigs, lapack_sigs, accel, dsts)

\* Lines 108-115: the one branch of make_all.
Decide(blas_sigs, lapack_sigs, accel, dsts) ==
    IF all_newer(dsts, SrcFiles)
    THEN [pc |-> "skipped", error |-> "", dst_files |-> dsts, to_write |-> <<>>]
    ELSE Regenerate(blas_sigs, lapack_sigs, accel, dsts)

\* Lines 96-115: everything make_all does before write_files.
MakeAllPlan(accel) ==
    IF "blas_signature_file" \notin src_exists
    THEN Failed("FileNotFoundError", <<>>)
    ELSE IF "lapack_signature_file" \notin src_exists
    THEN Failed("FileNotFoundError", <<>>)
    ELSE
    LET blas == read_signatures(blas_signature_file)
        lapack == read_signatures(lapack_signature_file)
    IN  IF blas.raised # "" THEN Failed(blas.raised, <<>>)
        ELSE IF lapack.raised # "" THEN Failed(lapack.raised, <<>>)
        ELSE Decide(blas.sigs, lapack.sigs, accel,
                    DstFiles(blas.sigs, lapack.sigs))

Init ==
    /\ WRAPPED_FUNCS \in WrappedChoices
    /\ USE_OLD_ACCELERATE \in OldAccelerateChoices
    /\ call = [name |-> "dgemm", return_type |-> "void", argnames |-> <<>>,
               argtypes |-> <<>>, accelerate |-> FALSE]
    /\ ret = Pending
    /\ blas_signature_file \in BlasFiles
    /\ lapack_signature_file \in LapackFiles
    /\ src_exists = Inputs
    /\ src_mtime = [f \in Inputs |-> 0]
    /\ outdir = [p \in Paths |-> Absent]
    /\ clock = 1
    /\ pc = "idle"
    /\ accelerate = FALSE
    /\ dst_files = <<>>
    /\ to_write = <<>>
    /\ nwritten = 0
    /\ outdir0 = [p \in Paths |-> Absent]
    /\ error = ""

Idle == pc = "idle"
Running == pc = "writing"

\* One invocation of the script, up to the call of write_files.
MakeAll(accel) ==
    /\ Idle
    /\ LET plan == MakeAllPlan(accel)
       IN  /\ pc' = plan.pc
           /\ error' = plan.error
           /\ dst_files' = plan.dst_files
           /\ to_write' = plan.to_write
    /\ accelerate' = accel
    /\ nwritten' = 0
    /\ outdir0' = outdir
    /\ UNCHANGED <<cfgVars, declVars, blas_signature_file, lapack_signature_file,
                   src_exists, src_mtime, outdir, clock>>

\* write_files: open(file_name, 'w') and write, one item per step.
WriteFile ==
    /\ Running
    /\ nwritten < Len(to_write)
    /\ LET item == to_write[nwritten + 1]
       IN  outdir' = [outdir EXCEPT ![item[1]] = File(clock, item[2])]
    /\ nwritten' = nwritten + 1
    /\ pc' = IF nwritten + 1 = Len(to_write) THEN "done" ELSE "writing"
    /\ UNCHANGED <<cfgVars, declVars, blas_signature_file, lapack_signature_file,
                   src_exists, src_mtime, clock, accelerate, dst_files, to_write,
                   outdir0, error>>

\* open(file_name, 'w') fails (the path cannot be written): the run ends.
WriteFails ==
    /\ Running
    /\ nwritten < Len(to_write)
    /\ pc' = "failed"
    /\ error' = "OSError"
    /\ UNCHANGED <<cfgVars, declVars, blas_signature_file, lapack_signature_file,
                   src_exists, src_mtime, outdir, clock, accelerate, dst_files,
                   to_write, nwritten, outdir0>>

\* The process exits; the next invocation starts afresh.
Exit ==
    /\ pc \in {"done", "skipped", "failed"}
    /\ pc' = "idle"
    /\ accelerate' = FALSE
    /\ dst_files' = <<>>
    /\ to_write' = <<>>
    /\ nwritten' = 0
    /\ outdir0' = [p \in Paths |-> Absent]
    /\ error' = ""
    /\ UNCHANGED <<cfgVars, declVars, blas_signature_file, lapack_signature_file,
                   src_exists, src_mtime, outdir, clock>>

\* The environment, between runs.
Tick ==
    /\ Idle
    /\ clock < MaxTime
    /\ clock' = clock + 1
    /\ UNCHANGED <<cfgVars, declVars, blas_signature_file, lapack_signature_file,
                   src_exists, src_mtime, outdir, pc, accelerate, dst_files,
                   to_write, nwritten, outdir0, error>>

TouchInput(f) ==
    /\ Idle
    /\ f \in src_exists
    /\ src_mtime[f] < clock
    /\ src_mtime' = [src_mtime EXCEPT ![f] = clock]
    /\ UNCHANGED <<cfgVars, declVars, blas_signature_file, lapack_signature_file,
                   src_exists, outdir, clock, pc, accelerate, dst_files,
                   to_write, nwritten, outdir0, error>>

RemoveInput(f) ==
    /\ Idle
    /\ f \in src_exists
    /\ f # "__file__"
    /\ src_exists' = src_exists \ {f}
    /\ UNCHANGED <<cfgVars, declVars, blas_signature_file, lapack_signature_file,
                   src_mtime, outdir, clock, pc, accelerate, dst_files,
                   to_write, nwritten, outdir0, error>>

DeleteOutput(p) ==
    /\ Idle
    /\ outdir[p].exists
    /\ outdir' = [outdir EXCEPT ![p] = Absent]
    /\ UNCHANGED <<cfgVars, declVars, blas_signature_file, lapack_signature_file,
                   src_exists, src_mtime, clock, pc, accelerate, dst_files,
                   to_write, nwritten, outdir0, error>>

Next ==
    \/ \E accel \in BOOLEAN : MakeAll(accel)
    \/ WriteFile
    \/ WriteFails
    \/ Exit
    \/ Tick
    \/ \E f \in Inputs : TouchInput(f)
    \/ \E f \in Inputs : RemoveInput(f)
    \/ \E p \in Paths : DeleteOutput(p)

Spec == Init /\ [][Next]_vars

----------------------------------------------------------------------------
(* Properties of generate_decl_wrapper, checked under SpecDecl *)

Called == ret # Pending

TypesMapped(c) ==
    /\ c.return_type \in DOMAIN C_TYPES
    /\ \A i \in 1..Len(c.argtypes) : c.argtypes[i] \in DOMAIN C_TYPES

LinesOfKind(text, kind) == {i \in 1..Len(text) : text[i].kind = kind}

InNeitherSet(name) == name \notin WRAPPED_FUNCS /\ name \notin USE_OLD_ACCELERATE

\* C3: for a routine named in WRAPPED_FUNCS generate_decl_wrapper returns
\* the empty string in both platform modes, whatever the rest of the
\* signature is (no exception is raised either).
C3_WrappedFuncsEmpty ==
    (Called /\ call.name \in WRAPPED_FUNCS) => ret = Returned(<<>>)

\* C3 witness: a hard-coded routine, called in the newer-platform mode with
\* a type that has no C mapping, has returned the empty string.
C3_Witness ==
    /\ Called
    /\ call.name \in WRAPPED_FUNCS
    /\ call.accelerate
    /\ ~TypesMapped(call)
    /\ ret = Returned(<<>>)

\* C4 as claimed: for EVERY routine named in USE_OLD_ACCELERATE (members of
\* WRAPPED_FUNCS included) the body is empty with accelerate = True and
\* non-empty with accelerate = False.
C4_Original ==
    (Called /\ call.name \in USE_OLD_ACCELERATE /\ TypesMapped(call)) =>
        IF call.accelerate
        THEN ret = Returned(<<>>)
        ELSE ret.raised = "" /\ ret.text # <<>>

\* C4 amended: for a routine named in USE_OLD_ACCELERATE whose types all
\* have a C mapping, the body is empty with accelerate = True; with
\* accelerate = False it is non-empty exactly when the routine is not also
\* in WRAPPED_FUNCS; a member of both sets has an empty body in both modes.
C4_LegacyCovered ==
    (Called /\ call.name \in USE_OLD_ACCELERATE /\ TypesMapped(call)) =>
        /\ ret.raised = ""
        /\ call.accelerate => ret.text = <<>>
        /\ ~call.accelerate =>
              (ret.text # <<>> <=> call.name \notin WRAPPED_FUNCS)

\* C4 witness: a legacy-covered routine that is not hard-coded has got a
\* non-empty wrapper in standard mode.
C4_Witness ==
    /\ Called
    /\ call.name \in USE_OLD_ACCELERATE \ WRAPPED_FUNCS
    /\ ~call.accelerate
    /\ TypesMapped(call)
    /\ ret.text # <<>>

\* C5 as claimed: for a routine in neither exception set the body has one
\* external declaration and one forwarding definition F_FUNC(name,NAME)
\* whose parameter count is len(argnames), also when argnames and argtypes
\* differ in length.
C5_Original ==
    (Called /\ InNeitherSet(call.name) /\ TypesMapped(call)) =>
        /\ ret.raised = ""
        /\ Cardinality(LinesOfKind(ret.text, "decl")) = 1
        /\ Cardinality(LinesOfKind(ret.text, "defn")) = 1
        /\ \A i \in LinesOfKind(ret.text, "defn") :
              /\ ret.text[i].head = <<"F_FUNC", <<call.name, Upper(call.name)>>>>
              /\ Len(ret.text[i].params) = Len(call.argnames)

\* C5 amended: for a routine in neither exception set whose types all have
\* a C mapping, in both modes, the body has exactly one external
\* declaration and exactly one forwarding definition F_FUNC(name,NAME); the
\* parameter count of both is min(len(argnames), len(argtypes)), which is
\* len(argnames) whenever argtypes is at least as long as argnames (an empty
\* argnames included) and smaller when argtypes is shorter.
C5_OneDeclOneDefn ==
    (Called /\ InNeitherSet(call.name) /\ TypesMapped(call)) =>
        /\ ret.raised = ""
        /\ Cardinality(LinesOfKind(ret.text, "decl")) = 1
        /\ Cardinality(LinesOfKind(ret.text, "defn")) = 1
        /\ \A i \in LinesOfKind(ret.text, "defn") \cup LinesOfKind(ret.text, "decl") :
              Len(ret.text[i].params) =
                  Min(Len(call.argnames), Len(call.argtypes))
        /\ \A i \in LinesOfKind(ret.text, "defn") :
              /\ ret.text[i].head = <<"F_FUNC", <<call.name, Upper(call.name)>>>>
              /\ Len(call.argtypes) >= Len(call.argnames) =>
                    Len(ret.text[i].params) = Len(call.argnames)
              /\ Len(call.argtypes) < Len(call.argnames) =>
                    Len(ret.text[i].params) < Len(call.argnames)

\* C5 witness: a wrapper rendered in the newer-platform mode from argnames
\* and argtypes of the same positive length.
C5_Witness ==
    /\ Called
    /\ InNeitherSet(call.name)
    /\ call.accelerate
    /\ Len(call.argnames) = MaxArgs
    /\ Len(call.argtypes) = MaxArgs
    /\ ret.raised = ""
    /\ Len(ret.text) > 0

\* C8 as claimed: a void routine's forwarding body has no return statement
\* (it only calls), a non-void routine's body returns the call's result;
\* the call passes the argument names in order.
C8_Original ==
    (Called /\ ret.raised = "" /\ ret.text # <<>>) =>
        /\ call.return_type = "void" => LinesOfKind(ret.text, "return") = {}
        /\ call.return_type # "void" =>
              Cardinality(LinesOfKind(ret.text, "return")) = 1
        /\ \A i \in LinesOfKind(ret.text, "return") \cup LinesOfKind(ret.text, "call") :
              ret.text[i].args = call.argnames

\* C8 amended: the forwarding body of a non-excluded routine is the same for
\* every return type, void included: one statement `return <external
\* call>(argnames)`, passing exactly the signature's argument names in the
\* signature's order to the symbol the declaration declares.
C8_AlwaysReturns ==
    (Called /\ ret.raised = "" /\ ret.text # <<>>) =>
        /\ Cardinality(LinesOfKind(ret.text, "return")) = 1
        /\ LinesOfKind(ret.text, "call") = {}
        /\ \A i \in LinesOfKind(ret.text, "return") :
              /\ ret.text[i].args = call.argnames
              /\ \A j \in LinesOfKind(ret.text, "decl") :
                    ret.text[i].head = ret.text[j].head

\* C8 witness: a wrapper was rendered for a void routine with two arguments
\* of different names.
C8_Witness ==
    /\ Called
    /\ call.return_type = "void"
    /\ Len(call.argnames) = 2
    /\ call.argnames[1] # call.argnames[2]
    /\ ret.raised = ""
    /\ ret.text # <<>>

----------------------------------------------------------------------------
(* Properties of make_all, checked under Spec *)

Range(seq) == {seq[i] : i \in 1..Len(seq)}

\* The paths write_files has written so far in this run.
WrittenPaths == {to_write[i][1] : i \in 1..nwritten}

\* The run got as far as the staleness test of line 108.
ReachedDecision ==
    pc # "idle" /\ error \notin {"FileNotFoundError", "ValueError"}

\* When the run began some output was missing, or some input was newer
\* than some output.
StaleAtStart ==
    \E i \in 1..Len(dst_files) :
        \/ ~outdir0[dst_files[i]].exists
        \/ \E s \in Inputs : src_mtime[s] > outdir0[dst_files[i]].mtime

\* When the run began every output existed and was newer than every input.
FreshAtStart ==
    \A i \in 1..Len(dst_files) : \A s \in Inputs :
        /\ outdir0[dst_files[i]].exists
        /\ outdir0[dst_files[i]].mtime > src_mtime[s]

BlasSigs == read_signatures(blas_signature_file).sigs
LapackSigs == read_signatures(lapack_signature_file).sigs
NamesOf(sigs) == {sigs[i].name : i \in 1..Len(sigs)}

LastIndex(sigs, name) ==
    CHOOSE i \in 1..Len(sigs) :
        sigs[i].name = name /\ \A j \in (i + 1)..Len(sigs) : sigs[j].name # name

\* The text the run's mode gives the file of a routine name.
ExpectedText(name) ==
    IF name \in NamesOf(BlasSigs)
    THEN FileText("BLAS", DeclOf(BlasSigs[LastIndex(BlasSigs, name)], accelerate).text)
    ELSE FileText("LAPACK",
                  DeclOf(LapackSigs[LastIndex(LapackSigs, name)], accelerate).text)

\* C1: a run of make_all that begins with some output missing or some input
\* newer than some output, and ends successfully, has written every output
\* file name.c of every signature (at the current time, with this run's
\* text); and no successful run has written a non-empty proper subset of
\* the outputs.
C1_RegenerationCompleteness ==
    pc \in {"done", "skipped"} =>
        /\ StaleAtStart =>
              /\ pc = "done"
              /\ \A i \in 1..Len(dst_files) :
                    \E j \in 1..nwritten :
                       /\ to_write[j][1] = dst_files[i]
                       /\ outdir[dst_files[i]] = File(clock, to_write[j][2])
        /\ WrittenPaths \in {{}, Range(dst_files)}

\* C1 witness: a run ended successfully that began with one output missing
\* and another output present and newer than every input; the fresh one was
\* rewritten as well.
C1_Witness ==
    /\ pc = "done"
    /\ \E d1, d2 \in Range(dst_files) :
          /\ ~outdir0[d1].exists
          /\ outdir0[d2].exists
          /\ \A s \in Inputs : outdir0[d2].mtime > src_mtime[s]
          /\ outdir[d2].mtime > outdir0[d2].mtime

\* C2: a run that begins with every output present and newer than every
\* input (as a preceding run leaves them when the inputs are unchanged)
\* takes the skip path and writes nothing: the output directory is the same
\* after the run as before it.
C2_Idempotence ==
    (ReachedDecision /\ FreshAtStart) =>
        /\ pc = "skipped"
        /\ nwritten = 0
        /\ to_write = <<>>
        /\ outdir = outdir0

\* C2 witness: a run over two fresh outputs, left by an earlier run, has
\* taken the skip path.
C2_Witness ==
    /\ pc = "skipped"
    /\ Cardinality(Range(dst_files)) >= 2
    /\ \A d \in Range(dst_files) : outdir[d].exists
    /\ outdir = outdir0

\* C6 as claimed: the number of files written equals the number of
\* signatures read, and a routine name occurring twice (within one library
\* or in both) does not make the run fail.
C6_Original ==
    /\ error # "TypeError"
    /\ pc = "done" => Cardinality(WrittenPaths) = Len(dst_files)

\* C6 amended: the mapping a regenerating run writes has exactly one entry
\* per distinct routine name, keyed <outdir>/<name>.c, routines with an
\* empty body included; its size equals the number of signatures read
\* exactly when the names are pairwise distinct.  A name that occurs twice
\* within one library gets one entry (the text of its last signature), and a
\* name that occurs in both libraries makes the run fail with TypeError
\* before any file is written.
C6_OneEntryPerName ==
    /\ (pc \in {"writing", "done"} \/ error = "OSError") =>
          /\ Keys(to_write) = Range(dst_files)
          /\ Len(to_write) = Cardinality(Keys(to_write))
          /\ \A i \in 1..Len(to_write) :
                to_write[i][2] = ExpectedText(to_write[i][1][1])
          /\ Len(to_write) = Len(dst_files) <=>
                Cardinality(Range(dst_files)) = Len(dst_files)
          /\ NamesOf(BlasSigs) \cap NamesOf(LapackSigs) = {}
    /\ error = "TypeError" =>
          /\ pc = "failed"
          /\ NamesOf(BlasSigs) \cap NamesOf(LapackSigs) # {}
          /\ nwritten = 0
          /\ outdir = outdir0

\* C6 witness: a run over a library that names one routine twice has ended
\* successfully with fewer files than signatures.
C6_Witness ==
    /\ pc = "done"
    /\ Len(to_write) < Len(dst_files)
    /\ \A d \in Range(dst_files) : outdir[d].exists

\* C7 as claimed: no output file exists for a routine named in
\* WRAPPED_FUNCS, and every signature has at most one output file.
C7_Original ==
    /\ \A n \in WRAPPED_FUNCS : ~outdir[Path(n)].exists
    /\ pc \in {"writing", "done"} => Len(to_write) <= Len(dst_files)

\* C7 amended: every signature produces exactly one entry, hence at most one
\* output file; the file of a routine named in WRAPPED_FUNCS is produced
\* like any other, and in both modes it holds no wrapper body, only the
\* preamble and the closing guard.
C7_WrappedFileHasNoBody ==
    /\ \A n \in WRAPPED_FUNCS :
          outdir[Path(n)].exists => outdir[Path(n)].text.body = <<>>
    /\ pc \in {"writing", "done"} =>
          \A i \in 1..Len(dst_files) :
             Cardinality({j \in 1..Len(to_write) : to_write[j][1] = dst_files[i]}) = 1
    /\ pc = "done" => \A d \in Range(dst_files) : outdir[d].exists

\* C7 witness: a run in the newer-platform mode has ended and the file of a
\* hard-coded routine exists with an empty body.
C7_Witness ==
    /\ pc = "done"
    /\ accelerate
    /\ \E n \in WRAPPED_FUNCS :
          /\ Path(n) \in WrittenPaths
          /\ outdir[Path(n)].exists
          /\ outdir[Path(n)].text.body = <<>>

\* C9: a run of make_all that fails leaves the output directory as it was
\* before the run.
C9_FailureLeavesNoPartialOutput ==
    pc = "failed" => outdir = outdir0

\* The branch a run takes at line 108: none when it fails before the test.
Branch(plan) ==
    IF plan.pc = "skipped" THEN "skip"
    ELSE IF plan.error \in {"FileNotFoundError", "ValueError"} THEN "none"
    ELSE "regenerate"

\* C10: from one file-system state a run with accelerate = False and a run
\* with accelerate = True take the same branch and test the same output
\* paths; the paths tested are the paths a regenerating run writes, in
\* either mode; and a run that skips writes nothing, so files generated in
\* the other mode stay as they are.
C10_ModeIndependentDecision ==
    /\ Idle =>
          LET std == MakeAllPlan(FALSE)
              acc == MakeAllPlan(TRUE)
          IN  /\ Branch(std) = Branch(acc)
              /\ std.dst_files = acc.dst_files
              /\ std.pc = "writing" => Keys(std.to_write) = Range(std.dst_files)
              /\ acc.pc = "writing" => Keys(acc.to_write) = Range(acc.dst_files)
    /\ pc \in {"writing", "done"} => Keys(to_write) = Range(dst_files)
    /\ pc = "done" => WrittenPaths = Range(dst_files)
    /\ pc = "skipped" => nwritten = 0 /\ outdir = outdir0

\* C10 witness: a run in the newer-platform mode has skipped over an output
\* that holds the wrapper body only the standard mode generates.
C10_Witness ==
    /\ pc = "skipped"
    /\ accelerate
    /\ \E n \in USE_OLD_ACCELERATE \ WRAPPED_FUNCS :
          /\ Path(n) \in Range(dst_files)
          /\ outdir[Path(n)].text.body # <<>>

====
